---- MODULE Spec2Model ----
(***************************************************************************)
(* Model of src/app.py: the Flask service that turns a user's Eventbrite   *)
(* orders into an iCal document (download_ical), its unused page-number    *)
(* fetcher (fetch_all_orders) and the OAuth callback (oauth_callback).     *)
(*                                                                         *)
(* JSON values are tagged: None, Str(s), Bool(b), Dict(d), List(l).  A     *)
(* Python exception raised by an expression is modelled by the guard that  *)
(* decides whether the expression raises, followed by the handler the      *)
(* exception reaches.                                                      *)
(***************************************************************************)
EXTENDS Integers, Sequences, FiniteSets, TLC

VARIABLES
    handler,             \* which function is running: "idle" before a call
    pc,                  \* position inside the running function
    access_token,        \* download_ical: request.args.get('access_token')
    continuation_token,  \* download_ical: local of the pagination loop
    all_orders,          \* download_ical: local list of raw orders
    idx,                 \* download_ical: position of the for loop over all_orders
    calendar,            \* download_ical: calendar.events, a set of Event objects
    skipped,             \* download_ical: number of `continue` exits of the for loop
    page,                \* fetch_all_orders: local page number
    orders,              \* fetch_all_orders: local list of raw orders
    code,                \* oauth_callback: request.args.get('code')
    fetches,             \* log of the requests.get / requests.post calls made
    result               \* what the function returned (or raised)

vars == <<handler, pc, access_token, continuation_token, all_orders, idx,
          calendar, skipped, page, orders, code, fetches, result>>

-----------------------------------------------------------------------------
(* Bounds of the model.                                                    *)

MaxPages == 3        \* page fetches per call
MaxPageLen == 2      \* orders in one upstream page
MaxOrders == 2       \* orders the upstream account holds in total
MaxAttendees == 2    \* attendees of one order

-----------------------------------------------------------------------------
(* JSON values and the Python operations the code applies to them.         *)

None == [t |-> "none"]
Str(s) == [t |-> "str", v |-> s]
Bool(b) == [t |-> "bool", v |-> b]
Dict(d) == [t |-> "dict", v |-> d]
List(l) == [t |-> "list", v |-> l]
EmptyDict == Dict(<<>>)
EmptyStr == Str("")

IsDict(x) == x.t = "dict"
IsStr(x) == x.t = "str"

\* Python truthiness: `if x` / `if not x`.
Truthy(x) ==
    CASE x.t = "none" -> FALSE
      [] x.t = "str"  -> x.v # ""
      [] x.t = "bool" -> x.v
      [] x.t = "dict" -> DOMAIN x.v # {}
      [] x.t = "list" -> x.v # <<>>

\* k in d, for a dict d.
HasKey(d, k) == k \in DOMAIN d.v

\* d.get(k, default), for a dict d (AttributeError otherwise: callers test IsDict).
Get(d, k, default) == IF HasKey(d, k) THEN d.v[k] ELSE default

\* x[k] evaluates without KeyError / TypeError.
CanIndex(x, k) == IsDict(x) /\ HasKey(x, k)

\* sep.join(parts) for a list of Python strings.
RECURSIVE Join(_, _)
Join(parts, sep) ==
    IF parts = <<>> THEN ""
    ELSE IF Len(parts) = 1 THEN parts[1]
    ELSE parts[1] \o sep \o Join(Tail(parts), sep)

\* f"{x}" for the values the code formats.
Format(x) ==
    CASE x.t = "str"  -> x.v
      [] x.t = "none" -> "None"
      [] OTHER        -> "<object>"

\* datetime.strptime(s, '%Y-%m-%dT%H:%M:%SZ'): the strings of the model that
\* match the format, with the datetime each parses to.
ParsedUtc ==
    ("2024-05-01T16:00:00Z" :> <<2024, 5, 1, 16, 0, 0>>) @@
    ("2024-05-01T18:00:00Z" :> <<2024, 5, 1, 18, 0, 0>>) @@
    ("2024-05-01T20:00:00Z" :> <<2024, 5, 1, 20, 0, 0>>)

StrptimeOk(x) == IsStr(x) /\ x.v \in DOMAIN ParsedUtc
Strptime(x) == ParsedUtc[x.v]

-----------------------------------------------------------------------------
(* The body of the for loop of download_ical over one order.               *)

AddressFields == <<"address_1", "address_2", "city", "region", "postal_code", "country">>

\* Mutant of AddressParts: every field the address carries is appended, empty or not.
RECURSIVE AddressPartsKeepsEmpty(_, _)
AddressPartsKeepsEmpty(venue_address, fields) ==
    IF fields = <<>> THEN <<>>
    ELSE LET field == Head(fields)
             rest == AddressPartsKeepsEmpty(venue_address, Tail(fields))
         IN IF HasKey(venue_address, field)
            THEN <<venue_address.v[field].v>> \o rest
            ELSE rest

\* address_parts: the truthy address fields, in the order of the field list.
RECURSIVE AddressParts(_, _)
AddressParts(venue_address, fields) ==
    IF fields = <<>> THEN <<>>
    ELSE LET field == Head(fields)
             rest == AddressParts(venue_address, Tail(fields))
         IN IF Truthy(Get(venue_address, field, None))
            THEN <<venue_address.v[field].v>> \o rest
            ELSE rest

\* The venue block raises (AttributeError on a venue or address that is no dict).
VenueRaises(event) ==
    LET venue == Get(event, "venue", None)
    IN /\ Truthy(venue)
       /\ \/ ~IsDict(venue)
          \/ ~IsDict(Get(venue, "address", EmptyDict))

\* ical_event.location after the venue block; None when it was never assigned.
Location(event) ==
    LET venue == Get(event, "venue", None)
    IN IF ~Truthy(venue) THEN None
       ELSE LET address_parts == AddressParts(Get(venue, "address", EmptyDict), AddressFields)
            IN IF address_parts # <<>> THEN Str(Join(address_parts, ", ")) ELSE None

\* One description line per attendee with a truthy ticket_class_name.
RECURSIVE TicketLines(_)
TicketLines(attendees) ==
    IF attendees = <<>> THEN <<>>
    ELSE LET attendee == Head(attendees)
             ticket_info == IF Truthy(Get(attendee, "ticket_class_name", None))
                            THEN <<"Type: " \o attendee.v["ticket_class_name"].v>>
                            ELSE <<>>
         IN (IF ticket_info # <<>> THEN <<" - " \o Join(ticket_info, ", ")>> ELSE <<>>)
            \o TicketLines(Tail(attendees))

\* The description block raises (AttributeError on a description or attendee
\* that is no dict).
DescriptionRaises(order, event) ==
    LET attendees == Get(order, "attendees", List(<<>>))
    IN \/ ~IsDict(Get(event, "description", EmptyDict))
       \/ /\ Truthy(attendees)
          /\ \E i \in 1..Len(attendees.v) : ~IsDict(attendees.v[i])

\* Mutant of DescriptionParts: the order block and the URL line are appended only
\* when the order has a reference and the event a URL.
DescriptionPartsOnlyWithData(order, event) ==
    LET description == Get(event, "description", EmptyDict)
        attendees == Get(order, "attendees", List(<<>>))
    IN (IF Truthy(Get(description, "text", None)) THEN <<description.v["text"].v>> ELSE <<>>)
       \o (IF HasKey(order, "reference")
           THEN <<"\nOrder Information:", "Order #: " \o Format(order.v["reference"])>>
           ELSE <<>>)
       \o (IF Truthy(attendees)
           THEN <<"\nTicket Information:">> \o TicketLines(attendees.v)
           ELSE <<>>)
       \o (IF Truthy(Get(event, "url", EmptyStr))
           THEN <<"\nEvent URL: " \o Format(event.v["url"])>>
           ELSE <<>>)

\* description_parts as the code builds it.
DescriptionParts(order, event) ==
    LET description == Get(event, "description", EmptyDict)
        attendees == Get(order, "attendees", List(<<>>))
    IN (IF Truthy(Get(description, "text", None)) THEN <<description.v["text"].v>> ELSE <<>>)
       \o <<"\nOrder Information:">>
       \o <<"Order #: " \o Format(Get(order, "reference", Str("N/A")))>>
       \o (IF Truthy(attendees)
           THEN <<"\nTicket Information:">> \o TicketLines(attendees.v)
           ELSE <<>>)
       \o <<"\nEvent URL: " \o Format(Get(event, "url", EmptyStr))>>

\* The dates parse: both subscripts evaluate and both strings match the format.
DatesParse(event) ==
    /\ CanIndex(event, "start") /\ CanIndex(event.v["start"], "utc")
    /\ StrptimeOk(event.v["start"].v["utc"])
    /\ CanIndex(event, "end") /\ CanIndex(event.v["end"], "utc")
    /\ StrptimeOk(event.v["end"].v["utc"])

Skip(why) == [ok |-> FALSE, why |-> why]

\* One iteration of `for order in all_orders`: the Event added to the calendar, or
\* the `continue` the iteration ends with.  uid is the identity of the new Event().
ProcessOrder(order, uid) ==
    LET event == Get(order, "event", None)
    IN IF ~Truthy(event) THEN Skip("no event data")
       ELSE IF ~IsDict(event) \/ ~IsDict(Get(event, "name", EmptyDict))
            THEN Skip("error processing order")
       ELSE IF ~(CanIndex(event, "name") /\ CanIndex(event.v["name"], "text"))
            THEN Skip("error processing order")
       ELSE IF ~DatesParse(event) THEN Skip("error parsing dates")
       ELSE IF VenueRaises(event) \/ DescriptionRaises(order, event)
            THEN Skip("error processing order")
       ELSE [ok |-> TRUE,
             event |-> [uid |-> uid,
                        name |-> event.v["name"].v["text"],
                        begin |-> Strptime(event.v["start"].v["utc"]),
                        end |-> Strptime(event.v["end"].v["utc"]),
                        url |-> Get(event, "url", EmptyStr),
                        location |-> Location(event),
                        description |-> Join(DescriptionParts(order, event), "\n")]]

-----------------------------------------------------------------------------
(* The upstream data the model draws from.                                 *)

\* Marks a key the generated object does not carry (never a JSON value).
Missing == [t |-> "missing"]

Field(k, x) == IF x = Missing THEN <<>> ELSE (k :> x)

Utc(s) == Dict([utc |-> Str(s)])

MakeEvent(name, start, end, url, venue, description) ==
    Dict(Field("name", name) @@ Field("start", start) @@ Field("end", end)
         @@ Field("url", url) @@ Field("venue", venue)
         @@ Field("description", description))

MakeOrder(event, reference, attendees) ==
    Dict(Field("event", event) @@ Field("reference", reference)
         @@ Field("attendees", attendees))

Names ==
    {Missing, None, EmptyDict, Dict([text |-> None]),
     Dict([text |-> EmptyStr]), Dict([text |-> Str("Gala")])}

Starts == {Missing, Utc("2024-05-01 18:00"), Utc("2024-05-01T18:00:00Z")}

Ends ==
    {Missing, EmptyDict, Utc("tomorrow"),
     Utc("2024-05-01T16:00:00Z"), Utc("2024-05-01T20:00:00Z")}

Urls == {Missing, EmptyStr, Str("https://evt.example/1")}

Descriptions == {Missing, None, Dict([text |-> EmptyStr]), Dict([text |-> Str("Bring ID")])}

References == {Missing, Str("R-100")}

Attendee(ticket_class_name) == Dict(Field("ticket_class_name", ticket_class_name))

RECURSIVE SeqsUpTo(_, _)
SeqsUpTo(S, n) ==
    IF n = 0 THEN {<<>>}
    ELSE LET shorter == SeqsUpTo(S, n - 1)
         IN shorter \cup {Append(s, x) : s \in {q \in shorter : Len(q) = n - 1}, x \in S}

AttendeeLists ==
    {Missing} \cup
    {List(l) : l \in SeqsUpTo({Attendee(EmptyStr), Attendee(Str("VIP"))}, MaxAttendees)}

AddressValues ==
    [address_1 : {EmptyStr, Str("1 Main St")}, address_2 : {EmptyStr, Str("Suite 5")},
     city : {EmptyStr, Str("Oslo")}, region : {EmptyStr, Str("OS")},
     postal_code : {EmptyStr, Str("0150")}, country : {EmptyStr, Str("NO")}]

\* Venues of every shape: each address field empty or set, with and without a name.
Venues ==
    {Dict(Field("name", n) @@ ("address" :> Dict(a))) :
        n \in {Missing, EmptyStr, Str("Hall")}, a \in AddressValues}

\* The venue shapes that decide whether the venue block runs, raises or finds nothing.
VenueShapes ==
    {Missing, None, Dict([name |-> Str("Hall")]), Dict([name |-> Str("Hall"), address |-> None]),
     Dict([name |-> Str("Hall"), address |-> Dict([city |-> Str("Oslo")])])}

GalaEvent(venue) ==
    MakeEvent(Dict([text |-> Str("Gala")]), Utc("2024-05-01T18:00:00Z"),
              Utc("2024-05-01T20:00:00Z"), Str("https://evt.example/1"), venue, Missing)

\* The raw orders a single-order run is checked on.
RawOrders ==
    {MakeOrder(MakeEvent(n, s, e, u, v, d), r, a) :
        n \in Names, s \in Starts, e \in Ends, u \in Urls, v \in VenueShapes,
        d \in Descriptions, r \in References, a \in AttendeeLists}
    \cup {MakeOrder(GalaEvent(v), Str("R-100"), Missing) : v \in Venues}
    \cup {MakeOrder(Missing, Str("R-100"), Missing), MakeOrder(None, Missing, Missing)}

\* The raw orders the paginated runs draw their pages from.
OrderGala == MakeOrder(GalaEvent(Missing), Str("R-100"), Missing)
OrderExpo ==
    MakeOrder(MakeEvent(Dict([text |-> Str("Expo")]), Utc("2024-05-01T16:00:00Z"),
                        Utc("2024-05-01T18:00:00Z"), Missing, Missing, Missing),
              Missing, Missing)
OrderNoTitle ==
    MakeOrder(MakeEvent(Missing, Utc("2024-05-01T18:00:00Z"), Utc("2024-05-01T20:00:00Z"),
                        Missing, Missing, Missing),
              Missing, Missing)

PageOrders == {OrderGala, OrderExpo, OrderNoTitle}

\* An upstream HTTP response: the status and the parsed JSON body.
Response(status, body) == [status |-> status, body |-> body]

FailStatuses == {401, 500}

Tokens == {Str("t1"), Str("t2")}

\* Pages of the continuation-token endpoint download_ical reads.
IcalPaginations ==
    {Missing, None, EmptyDict, Dict([continuation |-> EmptyStr])}
    \cup {Dict([continuation |-> tok]) : tok \in Tokens}

OrderLists == {Missing} \cup {List(l) : l \in SeqsUpTo(PageOrders, MaxPageLen)}

IcalResponses ==
    {Response(st, EmptyDict) : st \in FailStatuses}
    \cup {Response(200, Dict(Field("orders", o) @@ Field("pagination", p))) :
            o \in OrderLists, p \in IcalPaginations}

\* Pages of the page-number endpoint fetch_all_orders reads.
PagePaginations ==
    {Missing, EmptyDict, Dict([has_more_items |-> Bool(FALSE)]),
     Dict([has_more_items |-> Bool(TRUE)])}

PageResponses ==
    {Response(st, EmptyDict) : st \in FailStatuses}
    \cup {Response(200, Dict(Field("orders", o) @@ Field("pagination", p))) :
            o \in OrderLists, p \in PagePaginations}

\* Responses of the token endpoint oauth_callback posts to.  NotJson is a body
\* response.json() raises on, None an empty body, ConnectionFailed a post that raises.
NotJson == [t |-> "notjson"]
ConnectionFailed == [status |-> 0, body |-> None]

TokenResponses ==
    {ConnectionFailed, Response(400, None), Response(400, NotJson),
     Response(400, Dict([error |-> Str("invalid_grant")])), Response(200, NotJson),
     Response(200, None),
     Response(200, EmptyDict), Response(200, Dict([access_token |-> None])),
     Response(200, Dict([access_token |-> EmptyStr])),
     Response(200, Dict([access_token |-> Str("tok-1")]))}

\* The orders a page carries, as a sequence (none when the key is absent).
OrdersOf(body) == IF Truthy(Get(body, "orders", None)) THEN body.v["orders"].v ELSE <<>>

-----------------------------------------------------------------------------
(* What a function hands back.                                             *)

NoResult == [kind |-> "none", status |-> 0, error |-> "", value |-> <<>>]
\* jsonify({'error': error, ...}), status
Json(status, error) == [kind |-> "json", status |-> status, error |-> error, value |-> <<>>]
\* send_file(...) of str(calendar): the events in the order the document lists them
File(events) == [kind |-> "file", status |-> 200, error |-> "", value |-> events]
\* redirect(FRONTEND_URL?error=...) and redirect(FRONTEND_URL?access_token=...)
RedirectError(error) == [kind |-> "redirect", status |-> 302, error |-> error, value |-> <<>>]
RedirectToken(tok) == [kind |-> "redirect", status |-> 302, error |-> "", value |-> <<tok>>]
\* return orders / raise Exception(...) of fetch_all_orders
Return(os) == [kind |-> "return", status |-> 0, error |-> "", value |-> os]
Raise(error) == [kind |-> "raise", status |-> 0, error |-> error, value |-> <<>>]

\* One entry of the request log: the cursor sent, the status received, the orders
\* the page carried and the continuation marker it carried.
Fetch(cursor, status, os, next) ==
    [cursor |-> cursor, status |-> status, orders |-> os, next |-> next]

Num(n) == [t |-> "int", v |-> n]

\* The orders in which a Python set of n distinct objects can be iterated.
Orderings(S) ==
    {f \in [1..Cardinality(S) -> S] : \A i, j \in 1..Cardinality(S) : i # j => f[i] # f[j]}

-----------------------------------------------------------------------------
(* State machine.                                                          *)

Init ==
    /\ handler = "idle"
    /\ pc = "idle"
    /\ access_token = None
    /\ continuation_token = None
    /\ all_orders = <<>>
    /\ idx = 1
    /\ calendar = {}
    /\ skipped = 0
    /\ page = 1
    /\ orders = <<>>
    /\ code = None
    /\ fetches = <<>>
    /\ result = NoResult

\* ---- download_ical -------------------------------------------------------

\* Entry of download_ical up to the pagination loop.
DownloadIcal ==
    /\ handler = "idle"
    /\ \E tok \in {None, EmptyStr, Str("user-token")} :
         /\ access_token' = tok
         /\ IF ~Truthy(tok)
            THEN /\ result' = Json(400, "Access token missing")
                 /\ pc' = "done"
            ELSE /\ result' = result
                 /\ pc' = "fetch"
    /\ handler' = "download_ical"
    /\ continuation_token' = None
    /\ all_orders' = <<>>
    /\ calendar' = {}
    /\ UNCHANGED <<idx, skipped, page, orders, code, fetches>>

\* Mutant of FetchFailed: only server errors count as a failed fetch.
FetchFailedServerOnly(status) == status >= 500

\* The page fetch failed: `orders_response.status_code != 200`.
FetchFailed(status) == status # 200

\* Mutant of Extend: the page replaces the list instead of extending it.
ExtendReplaces(list, more) == more

\* all_orders.extend(orders_data['orders'])
Extend(list, more) == list \o more

\* Mutant of MorePages: `is not None` in place of the truthiness test.
MorePagesNotNone(token) == token # None

\* The loop goes round again: the negation of `if not continuation_token: break`.
MorePages(token) == Truthy(token)

\* One iteration of the pagination loop of download_ical.
FetchOrdersPage ==
    /\ handler = "download_ical"
    /\ pc = "fetch"
    /\ Len(fetches) < MaxPages
    /\ \E resp \in IcalResponses :
         LET cursor == IF Truthy(continuation_token) THEN continuation_token ELSE None
             orders_data == resp.body
             pagination == Get(orders_data, "pagination", EmptyDict)
             token == Get(pagination, "continuation", None)
         IN /\ Len(all_orders) + Len(OrdersOf(orders_data)) <= MaxOrders
            /\ IF FetchFailed(resp.status)
               THEN /\ result' = Json(resp.status, "Failed to fetch orders")
                    /\ pc' = "done"
                    /\ fetches' = Append(fetches, Fetch(cursor, resp.status, <<>>, None))
                    /\ UNCHANGED <<all_orders, continuation_token>>
               ELSE /\ all_orders' = Extend(all_orders, OrdersOf(orders_data))
                    /\ IF ~IsDict(pagination)
                       THEN \* AttributeError, caught by the outer except
                            /\ result' = Json(500, "Failed to generate iCal file")
                            /\ pc' = "done"
                            /\ fetches' = Append(fetches,
                                    Fetch(cursor, resp.status, OrdersOf(orders_data), None))
                            /\ UNCHANGED continuation_token
                       ELSE /\ continuation_token' = token
                            /\ fetches' = Append(fetches,
                                    Fetch(cursor, resp.status, OrdersOf(orders_data), token))
                            /\ pc' = IF MorePages(token) THEN "fetch" ELSE "check"
                            /\ result' = result
    /\ UNCHANGED <<handler, access_token, idx, calendar, skipped, page, orders, code>>

\* Mutant of NoOrders: the empty-list check never fires.
NoOrdersNever(os) == FALSE

\* `if not all_orders` after the loop.
NoOrders(os) == os = <<>>

CheckOrders ==
    /\ handler = "download_ical"
    /\ pc = "check"
    /\ IF NoOrders(all_orders)
       THEN /\ result' = Json(404, "No tickets found")
            /\ pc' = "done"
       ELSE /\ result' = result
            /\ pc' = "process"
    /\ idx' = 1
    /\ UNCHANGED <<handler, access_token, continuation_token, all_orders, calendar,
                   skipped, page, orders, code, fetches>>

\* Mutant of ProcessNextOrder: a failing order ends the loop (break for continue).
ProcessNextOrderBreaks ==
    /\ handler = "download_ical"
    /\ pc = "process"
    /\ idx <= Len(all_orders)
    /\ LET r == ProcessOrder(all_orders[idx], idx)
       IN IF r.ok
          THEN /\ calendar' = calendar \cup {r.event}
               /\ skipped' = skipped
               /\ idx' = idx + 1
          ELSE /\ calendar' = calendar
               /\ skipped' = skipped + 1
               /\ idx' = Len(all_orders) + 1
    /\ UNCHANGED <<handler, pc, access_token, continuation_token, all_orders, page,
                   orders, code, fetches, result>>

\* One iteration of `for order in all_orders`.
ProcessNextOrder ==
    /\ handler = "download_ical"
    /\ pc = "process"
    /\ idx <= Len(all_orders)
    /\ LET r == ProcessOrder(all_orders[idx], idx)
       IN IF r.ok
          THEN /\ calendar' = calendar \cup {r.event}
               /\ skipped' = skipped
          ELSE /\ calendar' = calendar
               /\ skipped' = skipped + 1
    /\ idx' = idx + 1
    /\ UNCHANGED <<handler, pc, access_token, continuation_token, all_orders, page,
                   orders, code, fetches, result>>

\* `if not calendar.events` after the for loop.
NoEvents(events) == events = {}

\* After the for loop: the 404 or the generated file.
SendCalendar ==
    /\ handler = "download_ical"
    /\ pc = "process"
    /\ idx > Len(all_orders)
    /\ IF NoEvents(calendar)
       THEN result' = Json(404, "No valid events found")
       ELSE \E document \in Orderings(calendar) : result' = File(document)
    /\ pc' = "done"
    /\ UNCHANGED <<handler, access_token, continuation_token, all_orders, idx, calendar,
                   skipped, page, orders, code, fetches>>

\* ---- fetch_all_orders ----------------------------------------------------

\* Entry of fetch_all_orders up to its loop.
FetchAllOrders ==
    /\ handler = "idle"
    /\ handler' = "fetch_all_orders"
    /\ pc' = "fetch"
    /\ page' = 1
    /\ orders' = <<>>
    /\ UNCHANGED <<access_token, continuation_token, all_orders, idx, calendar, skipped,
                   code, fetches, result>>

\* The loop goes round again: the negation of `if not pagination.get('has_more_items')`.
HasMoreItems(pagination) == Truthy(Get(pagination, "has_more_items", None))

\* One iteration of the loop of fetch_all_orders.
FetchPage ==
    /\ handler = "fetch_all_orders"
    /\ pc = "fetch"
    /\ Len(fetches) < MaxPages
    /\ \E resp \in PageResponses :
         LET data == resp.body
             pagination == Get(data, "pagination", EmptyDict)
         IN /\ Len(orders) + Len(OrdersOf(data)) <= MaxOrders
            /\ IF resp.status # 200
               THEN /\ result' = Raise("Failed to fetch orders")
                    /\ pc' = "done"
                    /\ fetches' = Append(fetches, Fetch(Num(page), resp.status, <<>>, None))
                    /\ UNCHANGED <<orders, page>>
               ELSE IF ~HasKey(data, "orders")
               THEN \* data['orders'] raises KeyError
                    /\ result' = Raise("KeyError: 'orders'")
                    /\ pc' = "done"
                    /\ fetches' = Append(fetches, Fetch(Num(page), 200, <<>>, None))
                    /\ UNCHANGED <<orders, page>>
               ELSE /\ orders' = orders \o data.v["orders"].v
                    /\ fetches' = Append(fetches,
                            Fetch(Num(page), 200, data.v["orders"].v,
                                  Get(pagination, "has_more_items", None)))
                    /\ IF HasMoreItems(pagination)
                       THEN /\ page' = page + 1
                            /\ pc' = "fetch"
                            /\ result' = result
                       ELSE /\ page' = page
                            /\ pc' = "done"
                            /\ result' = Return(orders')
    /\ UNCHANGED <<handler, access_token, continuation_token, all_orders, idx, calendar,
                   skipped, code>>

\* ---- oauth_callback ------------------------------------------------------

\* code[:5] evaluates: slicing None raises TypeError.
CanSlice(c) == IsStr(c)

\* Entry of oauth_callback up to the token exchange.
OauthCallback ==
    /\ handler = "idle"
    /\ handler' = "oauth_callback"
    /\ \E c \in {None, EmptyStr, Str("abc123")} :
         /\ code' = c
         /\ IF ~CanSlice(c)
            THEN \* the logger line raises; caught by `except Exception`
                 /\ result' = RedirectError("server_error")
                 /\ pc' = "done"
            ELSE IF ~Truthy(c)
            THEN /\ result' = RedirectError("missing_code")
                 /\ pc' = "done"
            ELSE /\ result' = result
                 /\ pc' = "exchange"
    /\ UNCHANGED <<access_token, continuation_token, all_orders, idx, calendar, skipped,
                   page, orders, fetches>>

\* requests.post to the token endpoint and the redirect that follows.
ExchangeToken ==
    /\ handler = "oauth_callback"
    /\ pc = "exchange"
    /\ \E resp \in TokenResponses :
         /\ fetches' = Append(fetches, Fetch(code, resp.status, <<>>, None))
         /\ result' =
              IF resp = ConnectionFailed THEN RedirectError("server_error")
              ELSE IF resp.status # 200
              THEN IF resp.body = NotJson THEN RedirectError("server_error")
                   ELSE RedirectError("token_exchange_failed")
              ELSE IF ~IsDict(resp.body) THEN RedirectError("server_error")
              ELSE IF ~Truthy(Get(resp.body, "access_token", None))
              THEN RedirectError("no_access_token")
              ELSE RedirectToken(resp.body.v["access_token"])
    /\ pc' = "done"
    /\ UNCHANGED <<handler, access_token, continuation_token, all_orders, idx, calendar,
                   skipped, page, orders, code>>

-----------------------------------------------------------------------------

Next ==
    \/ DownloadIcal
    \/ FetchOrdersPage
    \/ CheckOrders
    \/ ProcessNextOrder
    \/ SendCalendar
    \/ FetchAllOrders
    \/ FetchPage
    \/ OauthCallback
    \/ ExchangeToken

Spec == Init /\ [][Next]_vars

\* download_ical at the head of its for loop, after one page that carried one order.
InitOrder ==
    /\ handler = "download_ical"
    /\ pc = "process"
    /\ access_token = Str("user-token")
    /\ continuation_token = None
    /\ all_orders \in {<<o>> : o \in RawOrders}
    /\ idx = 1
    /\ calendar = {}
    /\ skipped = 0
    /\ page = 1
    /\ orders = <<>>
    /\ code = None
    /\ fetches = <<Fetch(None, 200, all_orders, None)>>
    /\ result = NoResult

NextOrder == ProcessNextOrder \/ SendCalendar

SpecOrder == InitOrder /\ [][NextOrder]_vars

-----------------------------------------------------------------------------
(* Properties.                                                             *)

Range(f) == {f[i] : i \in DOMAIN f}

\* The orders of the logged pages, concatenated in the order they were fetched.
RECURSIVE ConcatPages(_)
ConcatPages(log) ==
    IF log = <<>> THEN <<>> ELSE Head(log).orders \o ConcatPages(Tail(log))

\* The events of the orders os[i..] that the for loop accepts, in list order.
RECURSIVE AcceptedFrom(_, _)
AcceptedFrom(os, i) ==
    IF i > Len(os) THEN <<>>
    ELSE (IF ProcessOrder(os[i], i).ok THEN <<ProcessOrder(os[i], i).event>> ELSE <<>>)
         \o AcceptedFrom(os, i + 1)

AcceptedEvents(os) == AcceptedFrom(os, 1)

InIcal == handler = "download_ical"

\* C1: in download_ical a page fetch with a non-success status is the last fetch
\* made; the request ends at once with the upstream-failure error carrying that
\* status, no document, and nothing of the pages aggregated before.
C1_UpstreamFailureAborts ==
    InIcal =>
        \A i \in 1..Len(fetches) :
            fetches[i].status # 200 =>
                /\ i = Len(fetches)
                /\ pc = "done"
                /\ result = Json(fetches[i].status, "Failed to fetch orders")
                /\ calendar = {}

\* C1 witness: page 1 delivered orders, page 2 answered 401.
C1_FailureOnSecondPage ==
    /\ InIcal /\ pc = "done"
    /\ Len(fetches) = 2
    /\ fetches[1].orders # <<>>
    /\ fetches[2].status = 401
    /\ result.status = 401

ListedFailure(order) ==
    LET event == Get(order, "event", None)
    IN \/ ~Truthy(event)
       \/ ~(CanIndex(event, "name") /\ CanIndex(event.v["name"], "text"))
       \/ ~DatesParse(event)

AllFetchesSucceeded ==
    /\ InIcal /\ pc = "done"
    /\ fetches # <<>>
    /\ \A i \in 1..Len(fetches) : fetches[i].status = 200
    /\ result.status # 500

C6_NoCursorTwice ==
    handler \in {"download_ical", "fetch_all_orders"} =>
        \A i, j \in 1..Len(fetches) : i # j => fetches[i].cursor # fetches[j].cursor

\* The page ends the loop: a failure, or a page without continuation marker.
LastPage(f) == f.status # 200 \/ ~Truthy(f.next)

\* C6 (amended): the loop stops exactly at the first page that failed or carries no
\* continuation marker; download_ical sends back the token of the page before (so
\* it repeats a cursor when upstream repeats a token), fetch_all_orders requests
\* pages 1, 2, 3, ...; the loop ends only if upstream sends such a last page.
C6_StopsAtFirstLastPage ==
    handler \in {"download_ical", "fetch_all_orders"} =>
        /\ \A i \in 1..Len(fetches) : LastPage(fetches[i]) => i = Len(fetches)
        /\ (fetches # <<>> /\ LastPage(fetches[Len(fetches)])) => pc # "fetch"
        /\ (pc # "fetch" /\ pc # "idle" /\ fetches # <<>>)
              => (LastPage(fetches[Len(fetches)]) \/ result.kind \in {"json", "raise"})
        /\ handler = "download_ical" =>
              \A i \in 1..Len(fetches) :
                 fetches[i].cursor = IF i = 1 THEN None ELSE fetches[i - 1].next
        /\ handler = "fetch_all_orders" =>
              \A i \in 1..Len(fetches) : fetches[i].cursor = Num(i)

\* C6 witness: download_ical stopped at its third page, having sent the same
\* continuation token twice.
C6_StoppedAfterRepeatedToken ==
    /\ InIcal /\ pc = "check"
    /\ Len(fetches) = 3
    /\ fetches[2].cursor = fetches[3].cursor
    /\ ~Truthy(fetches[3].next)

\* C10 (as claimed): oauth_callback called without a code redirects with
\* error=missing_code and posts nothing to the token endpoint.
C10_MissingCodeRedirect ==
    (handler = "oauth_callback" /\ pc = "done" /\ ~Truthy(code)) =>
        /\ result = RedirectError("missing_code")
        /\ fetches = <<>>

\* The orders the for loop is through with, and the event each one left.
Processed == IF InIcal /\ pc \in {"process", "done"} THEN 1..(idx - 1) ELSE {}
Accepted(i) == \E e \in calendar : e.uid = i
EventOf(i) == CHOOSE e \in calendar : e.uid = i
RawEvent(i) == Get(all_orders[i], "event", None)

HasTitle(event) == CanIndex(event, "name") /\ CanIndex(event.v["name"], "text")
StartParses(event) ==
    /\ CanIndex(event, "start") /\ CanIndex(event.v["start"], "utc")
    /\ StrptimeOk(event.v["start"].v["utc"])
NoEndTimestamp(event) == ~(CanIndex(event, "end") /\ CanIndex(event.v["end"], "utc"))

\* C5 (as claimed): an order with an event payload, a title and a parseable start
\* but no end timestamp is accepted, with end equal to start.
C5_NoEndDefaultsToStart ==
    \A i \in Processed :
        LET event == RawEvent(i)
        IN (/\ Truthy(event) /\ HasTitle(event) /\ StartParses(event)
            /\ NoEndTimestamp(event)
            /\ ~VenueRaises(event) /\ ~DescriptionRaises(all_orders[i], event))
           => (Accepted(i) /\ EventOf(i).end = EventOf(i).begin)

\* C7 (as claimed): every event in the calendar has a non-empty title.
C7_TitlesNonEmpty ==
    InIcal => \A e \in calendar : IsStr(e.name) /\ e.name.v # ""

\* The non-empty strings among the values, in order.
RECURSIVE NonEmpty(_)
NonEmpty(values) ==
    IF values = <<>> THEN <<>>
    ELSE (IF Truthy(Head(values)) THEN <<Head(values).v>> ELSE <<>>) \o NonEmpty(Tail(values))

\* s[1], s[2], ... written out with ", " between neighbours, built from the left.
RECURSIVE CommaSeparated(_, _)
CommaSeparated(strings, n) ==
    IF n = 0 THEN ""
    ELSE IF n = 1 THEN strings[1]
    ELSE CommaSeparated(strings, n - 1) \o ", " \o strings[n]

RECURSIVE TotalLen(_)
TotalLen(strings) == IF strings = <<>> THEN 0 ELSE Len(Head(strings)) + TotalLen(Tail(strings))

AddressOf(venue) == Get(venue, "address", EmptyDict)
AddressFieldValues(venue) ==
    [k \in 1..Len(AddressFields) |-> Get(AddressOf(venue), AddressFields[k], None)]

\* location is the given strings joined by ", ", or unset when there are none.
LocationIs(e, strings) ==
    IF strings = <<>> THEN e.location = None
    ELSE /\ e.location = Str(CommaSeparated(strings, Len(strings)))
         /\ Len(e.location.v) = TotalLen(strings) + 2 * (Len(strings) - 1)

TextOf(event) == Get(Get(event, "description", EmptyDict), "text", None)
AttendeesOf(order) == IF HasKey(order, "attendees") THEN order.v["attendees"].v ELSE <<>>
TicketNames(order) ==
    NonEmpty([k \in 1..Len(AttendeesOf(order)) |->
                Get(AttendeesOf(order)[k], "ticket_class_name", None)])

RECURSIVE Concat(_)
Concat(strings) == IF strings = <<>> THEN "" ELSE Head(strings) \o Concat(Tail(strings))

\* C9 (as claimed): the description is made of the sections whose source data
\* exists (description text, order header and reference, ticket lines, event URL
\* line), joined by a blank line; a section without data is left out.
C9_SectionsOnlyWithData ==
    \A i \in Processed :
        Accepted(i) =>
            LET order == all_orders[i]
                event == RawEvent(i)
                names == TicketNames(order)
                sections ==
                    (IF Truthy(TextOf(event)) THEN <<TextOf(event).v>> ELSE <<>>)
                    \o (IF HasKey(order, "reference")
                        THEN <<"Order Information:\nOrder #: " \o order.v["reference"].v>>
                        ELSE <<>>)
                    \o (IF names # <<>>
                        THEN <<Join([k \in 1..Len(names) |-> " - Type: " \o names[k]], "\n")>>
                        ELSE <<>>)
                    \o (IF Truthy(Get(event, "url", EmptyStr))
                        THEN <<"Event URL: " \o event.v["url"].v>>
                        ELSE <<>>)
            IN EventOf(i).description = Join(sections, "\n\n")

\* C9 (amended): the description is the description text when present, then always
\* the order header and the reference line ('N/A' for an order without reference),
\* then the ticket header when the attendee list is non-empty with one line per
\* attendee that has a ticket-class name, then always the event-URL line (with an
\* empty URL when there is none); lines are joined by a newline, with a blank line
\* before each of the three headers.
C9_DescriptionAsBuilt ==
    \A i \in Processed :
        Accepted(i) =>
            LET order == all_orders[i]
                event == RawEvent(i)
                names == TicketNames(order)
                url == Get(event, "url", EmptyStr)
            IN EventOf(i).description =
                  (IF Truthy(TextOf(event)) THEN TextOf(event).v \o "\n" ELSE "")
                  \o "\nOrder Information:\nOrder #: "
                  \o (IF HasKey(order, "reference") THEN order.v["reference"].v ELSE "N/A")
                  \o (IF AttendeesOf(order) # <<>>
                      THEN "\n\nTicket Information:"
                           \o Concat([k \in 1..Len(names) |-> "\n - Type: " \o names[k]])
                      ELSE "")
                  \o "\n\nEvent URL: " \o url.v

\* C9 witness: an accepted order without reference, description text or URL and
\* with one unnamed and one named attendee.
C9_NoSourceData ==
    /\ Processed # {} /\ Accepted(1)
    /\ ~HasKey(all_orders[1], "reference")
    /\ ~Truthy(TextOf(RawEvent(1)))
    /\ ~HasKey(RawEvent(1), "url")
    /\ AttendeesOf(all_orders[1]) = <<Attendee(EmptyStr), Attendee(Str("VIP"))>>
    /\ EventOf(1).description =
          "\nOrder Information:\nOrder #: N/A\n\nTicket Information:\n - Type: VIP\n\nEvent URL: "

====
